---- MODULE Spec2Model ----
\* Model of the ResponderAgent tool-calling loop
\* (src/src/services/assistant/agents/ResponderAgent.ts).
EXTENDS Integers, Sequences, FiniteSets, TLC

\* ---------------------------------------------------------------- bounds

\* largest explicitly passed maxToolCallSteps (the default is also tried)
MaxSteps == 2
\* longest caller-supplied history
MaxHistory == 2
\* most tool calls carried by one provider response
MaxToolCalls == 2
\* longest tool-call list handed to the dispatcher on its own
MaxDispatch == 3
\* most fragments of a stream merged on its own
MaxFragments == 3
\* largest tool-call index carried by the pieces of such a stream
MaxIndex == 1

\* ------------------------------------------------------- program constants

MAX_TOOLCALL_STEPS == 5

\* a JavaScript value that is undefined (field not present)
Absent == "undefined"

\* the thread identifiers the dispatcher is tried with
ThreadIDs == {"t1", "t2"}

\* ------------------------------------------------------ provider streams

\* One provider chunk: choices[0].delta fields and choices[0].finish_reason.
Chunk(role, content, has_tc, tcs, fin) ==
    [role |-> role, content |-> content, has_tool_calls |-> has_tc,
     tool_calls |-> tcs, finish_reason |-> fin]

\* ids the provider gives to the tool call at position i (0-based index i-1)
ToolCallIds == <<"call_a", Absent, "", "call_d">>

FirstPiece(i) ==
    [index |-> i - 1, id |-> ToolCallIds[((i - 1) % 4) + 1],
     name |-> "get_current_weather", arguments |-> "{"]

NextPiece(i) ==
    [index |-> i - 1, id |-> Absent, name |-> Absent, arguments |-> "}"]

\* a response that finishes with tool_calls and carries k tool calls
ToolCallStream(k, role) ==
    << Chunk(role, Absent, k > 0, [i \in 1..k |-> FirstPiece(i)], Absent),
       Chunk(Absent, Absent, k > 0, [i \in 1..k |-> NextPiece(i)], "tool_calls") >>

\* a response that finishes with stop after two content fragments
StopStream ==
    << Chunk("assistant", "It's ", FALSE, <<>>, Absent),
       Chunk(Absent, "sunny.", FALSE, <<>>, "stop") >>

\* a response cut off by the length limit in its only fragment
LengthStream ==
    << Chunk("assistant", "It", FALSE, <<>>, "length") >>

Streams ==
    {<<>>, StopStream, LengthStream}
        \cup {ToolCallStream(k, "assistant") : k \in 0..MaxToolCalls}

\* ----------------------------------------------------------- delta merge

\* newChunkObject = {} before the first fragment
EmptyChunkObject ==
    [empty |-> TRUE, role |-> Absent, content |-> Absent,
     has_tool_calls |-> FALSE, tool_calls |-> <<>>, finish_reason |-> Absent]

Str(s) == IF s = Absent THEN "" ELSE s

Adopt(old, new) == IF new = Absent THEN old ELSE new

\* a tool call's id and function name: the first non-empty value stays
AdoptFirst(old, new) ==
    IF new \in {Absent, ""} THEN old
    ELSE IF old \in {Absent, ""} THEN new ELSE old

\* merge one tool-call piece into the accumulated list, by index
MergePiece(acc, p) ==
    IF \E j \in 1..Len(acc) : acc[j].index = p.index
      THEN [j \in 1..Len(acc) |->
               IF acc[j].index = p.index
                 THEN [index |-> p.index,
                       id |-> AdoptFirst(acc[j].id, p.id),
                       name |-> AdoptFirst(acc[j].name, p.name),
                       arguments |-> Str(acc[j].arguments) \o Str(p.arguments)]
                 ELSE acc[j]]
      ELSE Append(acc, p)

RECURSIVE MergePieces(_, _)
MergePieces(acc, ps) ==
    IF ps = <<>> THEN acc
    ELSE MergePieces(MergePiece(acc, Head(ps)), Tail(ps))

mergeResponseObjects(acc, c) ==
    [empty |-> FALSE,
     role |-> Adopt(acc.role, c.role),
     content |-> IF c.content = Absent THEN acc.content
                 ELSE Str(acc.content) \o c.content,
     has_tool_calls |-> acc.has_tool_calls \/ c.has_tool_calls,
     tool_calls |-> IF c.has_tool_calls
                      THEN MergePieces(acc.tool_calls, c.tool_calls)
                      ELSE acc.tool_calls,
     finish_reason |-> Adopt(acc.finish_reason, c.finish_reason)]

\* the fold step with the accumulator and the fragment swapped
MergeStepSwapped(acc, c) == mergeResponseObjects(c, acc)

\* newChunkObject = mergeResponseObjects(newChunkObject, parsedChunk)
MergeStep(acc, c) == mergeResponseObjects(acc, c)

\* ------------------------------------------------------------------ state

VARIABLES
    threadID,           \* this.threadID
    maxToolCallSteps,   \* this.maxToolCallSteps
    save,               \* this.save
    originalMessages,   \* the history as the caller supplied it
    currentMessages,    \* this.currentMessages
    steps,              \* this.steps
    pc,                 \* position of run / the start callback
    runError,           \* the error run() rejected with, if any
    startError,         \* the error the start callback rejected with, if any
    messagesToSave,     \* processSteps' local messagesToSave
    stream,             \* fragments of the current response not yet read
    currentMessageUUID, \* processResponse's currentMessageUUID
    newChunkObject,     \* processResponse's accumulator
    uuids,              \* number of identifiers generated so far
    output,             \* what the controller has enqueued
    closed,             \* controller.close() was called
    requests,           \* completion requests issued so far
    responses,          \* the stream the provider served for each request
    toolDispatches,     \* number of rounds that went through handleToolCalls
    catalogQueries,     \* number of getToolsByPrompt calls
    relay,              \* saveMessages: "idle", "pending" or "finished"
    relayMessages,      \* the argument of saveMessages
    saveIdx,            \* position of saveMessages' loop
    attempts,           \* messages createMessage was called with
    stored,             \* messages the Message Store holds from this run
    storeFailed,        \* createMessage threw in this run
    dispatchPc,         \* handleToolCalls on its own: "off", "ready", "done"
    dispatchMessage,    \* the newMessage handed to handleToolCalls
    dispatchResult      \* the ToolMessages handleToolCalls returned

vars == <<threadID, maxToolCallSteps, save, originalMessages, currentMessages,
          steps, pc, runError, startError, messagesToSave, stream,
          currentMessageUUID,
          newChunkObject, uuids, output, closed, requests, responses,
          toolDispatches, catalogQueries, relay, relayMessages, saveIdx,
          attempts, stored, storeFailed, dispatchPc, dispatchMessage,
          dispatchResult>>

\* the array the caller passed: the constructor keeps the reference, so the
\* caller's array and this.currentMessages are one object
callerMessages == currentMessages

dispatchVars == <<dispatchPc, dispatchMessage, dispatchResult>>
config == <<threadID, maxToolCallSteps, save, originalMessages>>
roundVars == <<stream, currentMessageUUID, newChunkObject>>
relayVars == <<relay, relayMessages, saveIdx, attempts, stored, storeFailed>>

\* the i-th message of a caller-supplied history of h messages, which
\* alternates user and assistant turns and ends with the user's turn
HistoryMessage(i, h, tid) ==
    [id |-> i, thread_id |-> tid,
     role |-> IF (h - i) % 2 = 0 THEN "user" ELSE "assistant",
     content |-> "What's the weather in Tokyo?"]

\* the values of maxToolCallSteps a caller passes (or leaves to the default)
StepBounds == (0..MaxSteps) \cup {MAX_TOOLCALL_STEPS}

Init ==
    /\ threadID = "t1"
    /\ maxToolCallSteps \in StepBounds
    /\ save \in BOOLEAN
    /\ \E h \in 0..MaxHistory :
          originalMessages = [i \in 1..h |-> HistoryMessage(i, h, threadID)]
    /\ currentMessages = originalMessages
    /\ steps = 0
    /\ pc = "constructed"
    /\ runError = "none"
    /\ startError = "none"
    /\ messagesToSave = <<>>
    /\ stream = <<>>
    /\ currentMessageUUID = 0
    /\ newChunkObject = EmptyChunkObject
    /\ uuids = Len(originalMessages)
    /\ output = <<>>
    /\ closed = FALSE
    /\ requests = <<>>
    /\ responses = <<>>
    /\ toolDispatches = 0
    /\ catalogQueries = 0
    /\ relay = "idle"
    /\ relayMessages = <<>>
    /\ saveIdx = 1
    /\ attempts = <<>>
    /\ stored = <<>>
    /\ storeFailed = FALSE
    /\ dispatchPc = "off"
    /\ dispatchMessage = HistoryMessage(1, 1, threadID)
    /\ dispatchResult = <<>>

\* ------------------------------------------------------ pure operations

\* toolCall.id || ""
OrEmpty(x) == IF x = Absent \/ x = "" THEN "" ELSE x

\* the canned result text of executeTools
ToolResult == "executed"

\* executeTools without the "|| ''" fallback for a missing id
executeToolsRawId(toolCalls, base, tid) ==
    [i \in 1..Len(toolCalls) |->
        [id |-> base + i, role |-> "tool",
         tool_call_id |-> toolCalls[i].id,
         content |-> ToolResult, thread_id |-> tid]]

\* executeTools: one ToolMessage per tool call, ids generated in order
executeTools(toolCalls, base, tid) ==
    [i \in 1..Len(toolCalls) |->
        [id |-> base + i, role |-> "tool",
         tool_call_id |-> OrEmpty(toolCalls[i].id),
         content |-> ToolResult, thread_id |-> tid]]

handleToolCalls(newMessage, base, tid) ==
    executeTools(IF newMessage.role = "assistant" /\ newMessage.has_tool_calls
                   THEN newMessage.tool_calls ELSE <<>>,
                 base, tid)

\* hasToolCall taking every finish but stop for a tool call
hasToolCallUnlessStop(obj) == obj.finish_reason # "stop"

hasToolCall(obj) == obj.finish_reason = "tool_calls"

\* the while condition letting one more round through
LoopConditionInclusive(s, m) == s <= m

\* the while condition of processSteps
LoopCondition(s, m) == s < m

\* fetch: whether the request carries this.tools
FetchTools(s, m) == s < m

\* messagesToSave seeded with the first message of the history
SeedWithFirst(msgs) == << msgs[1] >>

\* processSteps' initial messagesToSave
SeedMessagesToSave(msgs) == << msgs[Len(msgs)] >>

\* the push that forgets the assistant message
AppendRoundResultsOnly(msgs, newMessage, results) == msgs \o results

\* the history replaced by the round's messages instead of extended
AppendRoundReplace(msgs, newMessage, results) == <<newMessage>> \o results

\* this.currentMessages.push(newMessage, ...toolCallResults)
AppendRound(msgs, newMessage, results) == Append(msgs, newMessage) \o results

\* the event enqueued for one fragment: { ...delta, id }
FragmentEvent(c, uuid) ==
    [id |-> uuid, role |-> c.role, content |-> c.content,
     has_tool_calls |-> c.has_tool_calls, tool_calls |-> c.tool_calls]

\* the message built with an identifier of its own
NewMessageFreshId(obj, uuid, tid) ==
    [id |-> uuid + 1, thread_id |-> tid, role |-> obj.role,
     content |-> obj.content, has_tool_calls |-> obj.has_tool_calls,
     tool_calls |-> obj.tool_calls]

\* the message built at end of stream: { ...delta, id, thread_id }
NewMessage(obj, uuid, tid) ==
    [id |-> uuid, thread_id |-> tid, role |-> obj.role,
     content |-> obj.content, has_tool_calls |-> obj.has_tool_calls,
     tool_calls |-> obj.tool_calls]

\* ---------------------------------------------------------------- actions

\* initialize checking for an empty history only after the catalog query
RunEmptyAfterQuery ==
    /\ pc = "constructed"
    /\ Len(currentMessages) = 0
    /\ catalogQueries' = catalogQueries + 1
    /\ pc' = "rejected"
    /\ runError' = "Messages array is empty"
    /\ UNCHANGED <<config, dispatchVars, currentMessages, steps, startError,
                   messagesToSave, roundVars, uuids, output, closed, requests,
                   responses, toolDispatches, relayVars>>

\* initialize throws on an empty history; run() rejects
RunEmpty ==
    /\ pc = "constructed"
    /\ Len(currentMessages) = 0
    /\ pc' = "rejected"
    /\ runError' = "Messages array is empty"
    /\ UNCHANGED <<config, dispatchVars, currentMessages, steps, startError, messagesToSave, roundVars,
                   uuids, output, closed, requests, responses, toolDispatches,
                   catalogQueries, relayVars>>

\* getToolsByPrompt rejects; initialize has no handler, run() rejects
RunCatalogFail ==
    /\ pc = "constructed"
    /\ Len(currentMessages) > 0
    /\ catalogQueries' = catalogQueries + 1
    /\ pc' = "rejected"
    /\ runError' = "getToolsByPrompt failed"
    /\ UNCHANGED <<config, dispatchVars, currentMessages, steps, startError, messagesToSave, roundVars,
                   uuids, output, closed, requests, responses, toolDispatches,
                   relayVars>>

\* initialize succeeds, the stream is constructed and its start callback
\* enters processSteps
RunStart ==
    /\ pc = "constructed"
    /\ Len(currentMessages) > 0
    /\ catalogQueries' = catalogQueries + 1
    /\ messagesToSave' = SeedMessagesToSave(currentMessages)
    /\ pc' = "loop"
    /\ UNCHANGED <<config, dispatchVars, currentMessages, steps, runError, startError, roundVars, uuids,
                   output, closed, requests, responses, toolDispatches,
                   relayVars>>

\* waitUntil(this.saveMessages(messagesToSave)): started, not awaited
StartRelay(msgs) ==
    /\ relay' = "pending"
    /\ relayMessages' = msgs
    /\ saveIdx' = 1
    /\ UNCHANGED <<attempts, stored, storeFailed>>

\* loop test passes; fetch issues the request and the provider answers
Fetch ==
    /\ pc = "loop"
    /\ LoopCondition(steps, maxToolCallSteps)
    /\ requests' = Append(requests,
                          [tools |-> FetchTools(steps, maxToolCallSteps),
                           messages |-> currentMessages])
    /\ \E s \in Streams :
          /\ stream' = s
          /\ responses' = Append(responses, s)
    /\ currentMessageUUID' = uuids + 1
    /\ uuids' = uuids + 1
    /\ newChunkObject' = EmptyChunkObject
    /\ pc' = "consume"
    /\ UNCHANGED <<config, dispatchVars, currentMessages, steps, runError, startError, messagesToSave,
                   output, closed, toolDispatches, catalogQueries, relayVars>>

\* loop test passes; the completion request fails and the error propagates
FetchFail ==
    /\ pc = "loop"
    /\ LoopCondition(steps, maxToolCallSteps)
    /\ requests' = Append(requests,
                          [tools |-> FetchTools(steps, maxToolCallSteps),
                           messages |-> currentMessages])
    /\ pc' = "error"
    /\ startError' = "completion request failed"
    /\ UNCHANGED <<config, dispatchVars, currentMessages, steps, runError, messagesToSave,
                   roundVars, uuids, output, closed, responses, toolDispatches,
                   catalogQueries, relayVars>>

\* loop test fails; processSteps hands messagesToSave over and returns
LoopExit ==
    /\ pc = "loop"
    /\ ~LoopCondition(steps, maxToolCallSteps)
    /\ StartRelay(messagesToSave)
    /\ pc' = "finalize"
    /\ UNCHANGED <<config, dispatchVars, currentMessages, steps, runError, startError, messagesToSave,
                   roundVars, uuids, output, closed, requests, responses,
                   toolDispatches, catalogQueries>>

\* processResponse putting each fragment in front of what was forwarded
ReadChunkPrepend ==
    /\ pc = "consume"
    /\ stream # <<>>
    /\ newChunkObject' = MergeStep(newChunkObject, Head(stream))
    /\ output' = <<FragmentEvent(Head(stream), currentMessageUUID)>> \o output
    /\ stream' = Tail(stream)
    /\ UNCHANGED <<config, dispatchVars, currentMessages, steps, pc, runError,
                   startError, messagesToSave, currentMessageUUID, uuids,
                   closed, requests, responses, toolDispatches,
                   catalogQueries, relayVars>>

\* processResponse reads one fragment, merges it and forwards it
ReadChunk ==
    /\ pc = "consume"
    /\ stream # <<>>
    /\ newChunkObject' = MergeStep(newChunkObject, Head(stream))
    /\ output' = Append(output, FragmentEvent(Head(stream), currentMessageUUID))
    /\ stream' = Tail(stream)
    /\ UNCHANGED <<config, dispatchVars, currentMessages, steps, pc, runError, startError, messagesToSave,
                   currentMessageUUID, uuids, closed, requests, responses,
                   toolDispatches, catalogQueries, relayVars>>

\* reader.read() rejects, but what was gathered is still handed over
ReadFailHandedOver ==
    /\ pc = "consume"
    /\ pc' = "finalize"
    /\ startError' = "read failed"
    /\ StartRelay(messagesToSave)
    /\ UNCHANGED <<config, dispatchVars, currentMessages, steps, runError,
                   messagesToSave, roundVars, uuids, output, closed, requests,
                   responses, toolDispatches, catalogQueries>>

\* reader.read() rejects; the error propagates out of the start callback
ReadFail ==
    /\ pc = "consume"
    /\ pc' = "error"
    /\ startError' = "read failed"
    /\ UNCHANGED <<config, dispatchVars, currentMessages, steps, runError, messagesToSave,
                   roundVars, uuids, output, closed, requests, responses,
                   toolDispatches, catalogQueries, relayVars>>

\* end of a stream that delivered no fragment: choices is undefined
EndOfStreamEmpty ==
    /\ pc = "consume"
    /\ stream = <<>>
    /\ newChunkObject.empty
    /\ pc' = "error"
    /\ startError' = "TypeError"
    /\ UNCHANGED <<config, dispatchVars, currentMessages, steps, runError, messagesToSave,
                   roundVars, uuids, output, closed, requests, responses,
                   toolDispatches, catalogQueries, relayVars>>

\* end of stream, no tool call: push, break, hand over to saveMessages
EndOfStreamFinal ==
    /\ pc = "consume"
    /\ stream = <<>>
    /\ ~newChunkObject.empty
    /\ ~hasToolCall(newChunkObject)
    /\ LET newMessage == NewMessage(newChunkObject, currentMessageUUID, threadID)
       IN  /\ currentMessages' = Append(currentMessages, newMessage)
           /\ messagesToSave' = Append(messagesToSave, newMessage)
           /\ StartRelay(Append(messagesToSave, newMessage))
    /\ pc' = "finalize"
    /\ UNCHANGED <<config, dispatchVars, steps, runError, startError, roundVars, uuids, output, closed,
                   requests, responses, toolDispatches, catalogQueries>>

\* end of stream with finish_reason tool_calls: dispatch, forward, append
EndOfStreamToolCalls ==
    /\ pc = "consume"
    /\ stream = <<>>
    /\ ~newChunkObject.empty
    /\ hasToolCall(newChunkObject)
    /\ LET newMessage == NewMessage(newChunkObject, currentMessageUUID, threadID)
           toolCallResults == handleToolCalls(newMessage, uuids, threadID)
       IN  /\ output' = output \o toolCallResults
           /\ messagesToSave' =
                 IF save THEN Append(messagesToSave, newMessage) \o toolCallResults
                         ELSE Append(messagesToSave, newMessage)
           /\ currentMessages' =
                 AppendRound(currentMessages, newMessage, toolCallResults)
           /\ uuids' = uuids + Len(toolCallResults)
    /\ toolDispatches' = toolDispatches + 1
    /\ steps' = steps + 1
    /\ pc' = "loop"
    /\ UNCHANGED <<config, dispatchVars, runError, startError, roundVars, closed, requests, responses,
                   catalogQueries, relayVars>>

\* the start callback awaiting saveMessages before it closes
FinalizeAfterRelay ==
    /\ pc = "finalize"
    /\ relay = "finished"
    /\ closed' = TRUE
    /\ pc' = "done"
    /\ UNCHANGED <<config, dispatchVars, currentMessages, steps, runError,
                   startError, messagesToSave, roundVars, uuids, output,
                   requests, responses, toolDispatches, catalogQueries,
                   relayVars>>

\* finalize: controller.close()
Finalize ==
    /\ pc = "finalize"
    /\ closed' = TRUE
    /\ pc' = "done"
    /\ UNCHANGED <<config, dispatchVars, currentMessages, steps, runError, startError, messagesToSave,
                   roundVars, uuids, output, requests, responses,
                   toolDispatches, catalogQueries, relayVars>>

runVars == <<config, dispatchVars, currentMessages, steps, pc, runError, startError, messagesToSave,
             roundVars, uuids, output, closed, requests, responses,
             toolDispatches, catalogQueries>>

\* saveMessages: createMessage resolves for the next message
SaveOk ==
    /\ relay = "pending"
    /\ saveIdx <= Len(relayMessages)
    /\ attempts' = Append(attempts, relayMessages[saveIdx])
    /\ stored' = Append(stored, relayMessages[saveIdx])
    /\ saveIdx' = saveIdx + 1
    /\ UNCHANGED <<runVars, relay, relayMessages, storeFailed>>

\* saveMessages: createMessage throws; the catch around the loop logs it
SaveFail ==
    /\ relay = "pending"
    /\ saveIdx <= Len(relayMessages)
    /\ attempts' = Append(attempts, relayMessages[saveIdx])
    /\ storeFailed' = TRUE
    /\ relay' = "finished"
    /\ UNCHANGED <<runVars, relayMessages, saveIdx, stored>>

\* saveMessages: the loop ran out of messages
SaveFinish ==
    /\ relay = "pending"
    /\ saveIdx > Len(relayMessages)
    /\ relay' = "finished"
    /\ UNCHANGED <<runVars, relayMessages, saveIdx, attempts, stored,
                   storeFailed>>

Next ==
    \/ RunEmpty
    \/ RunCatalogFail
    \/ RunStart
    \/ Fetch
    \/ FetchFail
    \/ LoopExit
    \/ ReadChunk
    \/ ReadFail
    \/ EndOfStreamEmpty
    \/ EndOfStreamFinal
    \/ EndOfStreamToolCalls
    \/ Finalize
    \/ SaveOk
    \/ SaveFail
    \/ SaveFinish

Spec == Init /\ [][Next]_vars

\* ------------------------------------------- the dispatcher on its own

\* the ids a tool-call request can carry (absent, empty, or a real id)
DispatchIds == {Absent, "", "call_a", "call_b"}

RECURSIVE ToolCallLists(_)
\* every list of at most n tool-call requests
ToolCallLists(n) ==
    IF n = 0 THEN {<<>>}
    ELSE LET shorter == ToolCallLists(n - 1)
         IN  shorter \cup
             {Append(l, [index |-> Len(l), id |-> d,
                         name |-> "get_current_weather", arguments |-> "{}"]) :
                 l \in {x \in shorter : Len(x) = n - 1}, d \in DispatchIds}

\* a finalized message is handed to handleToolCalls
InitDispatch ==
    /\ threadID \in ThreadIDs
    /\ maxToolCallSteps = MAX_TOOLCALL_STEPS
    /\ save = TRUE
    /\ originalMessages = << HistoryMessage(1, 1, threadID) >>
    /\ currentMessages = originalMessages
    /\ steps = 0
    /\ pc = "consume"
    /\ runError = "none"
    /\ startError = "none"
    /\ messagesToSave = SeedMessagesToSave(currentMessages)
    /\ stream = <<>>
    /\ currentMessageUUID = 2
    /\ newChunkObject = EmptyChunkObject
    /\ uuids = 2
    /\ output = <<>>
    /\ closed = FALSE
    /\ requests = <<>>
    /\ responses = <<>>
    /\ toolDispatches = 0
    /\ catalogQueries = 1
    /\ relay = "idle"
    /\ relayMessages = <<>>
    /\ saveIdx = 1
    /\ attempts = <<>>
    /\ stored = <<>>
    /\ storeFailed = FALSE
    /\ dispatchPc = "ready"
    /\ \E role \in {"assistant", "user", Absent}, has \in BOOLEAN,
          tcs \in ToolCallLists(MaxDispatch) :
          /\ ~has => tcs = <<>>
          /\ dispatchMessage =
                NewMessage([role |-> role, content |-> Absent,
                            has_tool_calls |-> has, tool_calls |-> tcs],
                           currentMessageUUID, threadID)
    /\ dispatchResult = <<>>

\* handleToolCalls(newMessage)
DispatchToolCalls ==
    /\ dispatchPc = "ready"
    /\ dispatchResult' = handleToolCalls(dispatchMessage, uuids, threadID)
    /\ uuids' = uuids + Len(dispatchResult')
    /\ dispatchPc' = "done"
    /\ UNCHANGED <<config, currentMessages, steps, pc, runError, startError,
                   messagesToSave, roundVars, output, closed, requests,
                   responses, toolDispatches, catalogQueries, relayVars,
                   dispatchMessage>>

NextDispatch == DispatchToolCalls

SpecDispatch == InitDispatch /\ [][NextDispatch]_vars

\* ------------------------------------------ one stream merged on its own

\* the id, function name and partial arguments a tool-call piece can carry
PieceNames ==
    { <<"call_a", "get_current_weather", "y">>,
      <<"call_b", "control_air_conditioner", "x">>,
      <<Absent, Absent, "x">>, <<Absent, Absent, "y">>, <<"", Absent, Absent>> }

\* the tool-call pieces a fragment can carry
Pieces ==
    { [index |-> x, id |-> n[1], name |-> n[2], arguments |-> n[3]] :
         x \in 0..MaxIndex, n \in PieceNames }

RECURSIVE PieceStreams(_)
\* every stream of at most n fragments with one tool-call piece each
PieceStreams(n) ==
    IF n = 0 THEN {<<>>}
    ELSE LET shorter == PieceStreams(n - 1)
         IN  shorter \cup
             {Append(r, Chunk(Absent, Absent, TRUE, <<p>>, Absent)) :
                 r \in {x \in shorter : Len(x) = n - 1}, p \in Pieces}

\* processResponse is about to read a stream of tool-call pieces
InitMerge ==
    /\ threadID = "t1"
    /\ maxToolCallSteps = MAX_TOOLCALL_STEPS
    /\ save = TRUE
    /\ originalMessages = << HistoryMessage(1, 1, threadID) >>
    /\ currentMessages = originalMessages
    /\ steps = 0
    /\ pc = "consume"
    /\ runError = "none"
    /\ startError = "none"
    /\ messagesToSave = SeedMessagesToSave(currentMessages)
    /\ stream \in PieceStreams(MaxFragments)
    /\ currentMessageUUID = 2
    /\ newChunkObject = EmptyChunkObject
    /\ uuids = 2
    /\ output = <<>>
    /\ closed = FALSE
    /\ requests = << [tools |-> FetchTools(steps, maxToolCallSteps),
                      messages |-> currentMessages] >>
    /\ responses = << stream >>
    /\ toolDispatches = 0
    /\ catalogQueries = 1
    /\ relay = "idle"
    /\ relayMessages = <<>>
    /\ saveIdx = 1
    /\ attempts = <<>>
    /\ stored = <<>>
    /\ storeFailed = FALSE
    /\ dispatchPc = "off"
    /\ dispatchMessage = HistoryMessage(1, 1, threadID)
    /\ dispatchResult = <<>>

NextMerge == ReadChunk

SpecMerge == InitMerge /\ [][NextMerge]_vars

\* ------------------------------------------------- vocabulary of the claims

\* the finish indicator a served response ends with
FinishOf(r) == IF r = <<>> THEN Absent ELSE r[Len(r)].finish_reason

\* the role a served response opens with
RoleOf(r) == IF r = <<>> THEN Absent ELSE r[1].role

\* the ids of the tool calls a served response carries, in request order
CallIdsOf(r) ==
    IF r = <<>> THEN <<>>
    ELSE [i \in 1..Len(r[1].tool_calls) |-> r[1].tool_calls[i].id]

\* processSteps has returned
LoopDone == pc \in {"finalize", "done"}

\* what this run appended to the working history
Produced == SubSeq(currentMessages, Len(originalMessages) + 1, Len(currentMessages))

\* C1: with max_steps = N and a provider that always finishes with
\* tool_calls, a finished loop has issued N requests with the tool list and
\* then one more without it, and has dispatched tool calls at most N times.
C1_AsClaimed ==
    (LoopDone /\ \A i \in 1..Len(responses) : FinishOf(responses[i]) = "tool_calls")
        => /\ Len(requests) = maxToolCallSteps + 1
           /\ \A i \in 1..maxToolCallSteps : requests[i].tools
           /\ ~requests[maxToolCallSteps + 1].tools
           /\ toolDispatches <= maxToolCallSteps

\* C2: run on an empty history is rejected with the precondition error, and
\* no catalog query, completion request, output event or store append happens.
C2_EmptyHistoryRejected ==
    (Len(originalMessages) = 0 /\ pc # "constructed")
        => /\ pc = "rejected"
           /\ runError = "Messages array is empty"
           /\ catalogQueries = 0
           /\ requests = <<>>
           /\ output = <<>>
           /\ ~closed
           /\ relay = "idle"
           /\ attempts = <<>>
           /\ stored = <<>>

C2_Witness ==
    Len(originalMessages) = 0 /\ pc = "rejected"

\* C3: when the first response ends with a finish indicator other than
\* tool_calls, the run makes exactly one completion request, dispatches no
\* tool call, keeps the step counter at 0, and finishes with exactly one
\* message (the finalized assistant message) appended to the history.
C3_SingleRound ==
    (Len(responses) >= 1 /\ FinishOf(responses[1]) \notin {Absent, "tool_calls"})
        => /\ maxToolCallSteps >= 1
           /\ Len(requests) = 1
           /\ Len(responses) = 1
           /\ toolDispatches = 0
           /\ steps = 0
           /\ \A i \in 1..Len(output) : output[i].role # "tool"
           /\ pc \in {"consume", "error", "finalize", "done"}
           /\ (pc \in {"consume", "error"} => currentMessages = originalMessages)
           /\ (pc = "consume" /\ stream = <<>> => ENABLED EndOfStreamFinal)
           /\ LoopDone =>
                 /\ Len(currentMessages) = Len(originalMessages) + 1
                 /\ SubSeq(currentMessages, 1, Len(originalMessages)) = originalMessages
                 /\ Produced[1].id = output[1].id
                 /\ Produced[1].thread_id = threadID
                 /\ Produced[1].role = "assistant"

C3_Witness ==
    /\ pc = "done"
    /\ Len(responses) = 1
    /\ FinishOf(responses[1]) = "stop"
    /\ Len(currentMessages) = Len(originalMessages) + 1

\* C4: default max_steps, round 1 finishes with tool_calls carrying k tool
\* calls, round 2 finishes with stop: two requests, the k ToolMessages are
\* forwarded after the round-1 fragments and before the round-2 fragments,
\* and the history ends as original, assistant, k ToolMessages in request
\* order, assistant (length h + k + 2).
C4_TwoRounds ==
    (/\ maxToolCallSteps = MAX_TOOLCALL_STEPS
     /\ Len(responses) = 2
     /\ FinishOf(responses[1]) = "tool_calls"
     /\ FinishOf(responses[2]) = "stop"
     /\ LoopDone)
        => LET h == Len(originalMessages)
               ids == CallIdsOf(responses[1])
               k == Len(ids)
               f1 == Len(responses[1])
               f2 == Len(responses[2])
           IN  /\ Len(requests) = 2
               /\ toolDispatches = 1
               /\ Len(currentMessages) = h + k + 2
               /\ SubSeq(currentMessages, 1, h) = originalMessages
               /\ currentMessages[h + 1].role = "assistant"
               /\ Len(currentMessages[h + 1].tool_calls) = k
               /\ \A i \in 1..k :
                     /\ currentMessages[h + 1 + i].role = "tool"
                     /\ currentMessages[h + 1 + i].tool_call_id =
                           (IF ids[i] = Absent THEN "" ELSE ids[i])
                     /\ output[f1 + i] = currentMessages[h + 1 + i]
               /\ currentMessages[h + k + 2].role = "assistant"
               /\ currentMessages[h + k + 2].content = "It's sunny."
               /\ Len(output) = f1 + k + f2
               /\ \A i \in 1..f1 : output[i].id = currentMessages[h + 1].id
               /\ \A i \in 1..f2 :
                     output[f1 + k + i].id = currentMessages[h + k + 2].id
               /\ requests[2].messages = SubSeq(currentMessages, 1, h + k + 1)

C4_Witness ==
    /\ maxToolCallSteps = MAX_TOOLCALL_STEPS
    /\ Len(originalMessages) = 1
    /\ Len(responses) = 2
    /\ Len(CallIdsOf(responses[1])) = 1
    /\ FinishOf(responses[1]) = "tool_calls"
    /\ FinishOf(responses[2]) = "stop"
    /\ pc = "done"
    /\ Len(currentMessages) = 4

\* C5: when a store append fails for one message, the relay still attempts
\* every later message, so a finished relay has attempted all it was given.
C5_AsClaimed ==
    relay = "finished" => attempts = relayMessages

\* C6 as claimed: what is handed to the relay is the first message of the
\* caller's history followed by everything this run produced, in order.
C6_AsClaimed ==
    LoopDone => relayMessages = << originalMessages[1] >> \o Produced

IsNotToolMessage(m) == m.role # "tool"

\* C6, amended: what is handed to the relay is the last message of the
\* caller's history followed by every assistant message this run produced
\* and, when persist is true, every ToolMessage, in production order.
C6_LastThenProduced ==
    LoopDone =>
        /\ relay # "idle"
        /\ relayMessages =
              << originalMessages[Len(originalMessages)] >>
                 \o (IF save THEN Produced
                     ELSE SelectSeq(Produced, IsNotToolMessage))

C6_Witness ==
    /\ pc = "done"
    /\ Len(originalMessages) > 1
    /\ save
    /\ \E i \in 1..Len(relayMessages) : relayMessages[i].role = "tool"
    /\ Len(relayMessages) = 1 + Len(Produced)

\* C8: with max_steps = 0 and a non-empty history the run still issues one
\* completion request, and that request omits the tool list.
C8_AsClaimed ==
    (maxToolCallSteps = 0 /\ Len(originalMessages) > 0 /\ LoopDone)
        => Len(requests) = 1 /\ ~requests[1].tools

\* C9: a failing Tool Catalog query does not abort the run; run on a
\* non-empty history is never rejected.
C9_AsClaimed ==
    pc = "rejected" => Len(originalMessages) = 0

\* C7: handleToolCalls returns one ToolMessage per tool-call request, in
\* the same order, with role tool, tool_call_id the request's id (empty
\* string when the id is absent) and the loop's thread id; none when the
\* message's role is not assistant or it has no tool_calls list.
C7_Dispatch ==
    dispatchPc = "done" =>
        LET m == dispatchMessage
            n == IF m.role = "assistant" /\ m.has_tool_calls
                   THEN Len(m.tool_calls) ELSE 0
        IN  /\ Len(dispatchResult) = n
            /\ \A i \in 1..n :
                  /\ dispatchResult[i].role = "tool"
                  /\ dispatchResult[i].tool_call_id =
                        (IF m.tool_calls[i].id \in {Absent, ""} THEN ""
                         ELSE m.tool_calls[i].id)
                  /\ dispatchResult[i].thread_id = threadID
                  /\ dispatchResult[i].thread_id = m.thread_id
            /\ \A i, j \in 1..n :
                  i # j => dispatchResult[i].id # dispatchResult[j].id

C7_Witness ==
    /\ dispatchPc = "done"
    /\ Len(dispatchResult) = 3
    /\ dispatchMessage.tool_calls[1].id = "call_b"
    /\ dispatchMessage.tool_calls[2].id = Absent
    /\ dispatchMessage.tool_calls[3].id = "call_a"

RECURSIVE Replay(_, _)
\* the events a run forwards for the responses rs when u identifiers were
\* generated before: each response's fragments, then one ToolMessage per
\* tool call of a response that finishes with tool_calls
Replay(rs, u) ==
    IF rs = <<>> THEN <<>>
    ELSE LET r == Head(rs)
             ids == IF FinishOf(r) = "tool_calls" /\ RoleOf(r) = "assistant"
                      THEN CallIdsOf(r) ELSE <<>>
         IN  [i \in 1..Len(r) |-> FragmentEvent(r[i], u + 1)]
             \o [i \in 1..Len(ids) |->
                    [id |-> u + 1 + i, role |-> "tool",
                     tool_call_id |-> IF ids[i] = Absent THEN "" ELSE ids[i],
                     content |-> ToolResult, thread_id |-> threadID]]
             \o Replay(Tail(rs), u + 1 + Len(ids))

\* C10: once processSteps has returned, closing the output is never blocked
\* by the store, whatever the relay has or has not done; and what a closed
\* output delivered is decided by the provider's responses alone, not by
\* store failures or delays.
C10_Detached ==
    /\ pc = "finalize" => ENABLED Finalize
    /\ closed => /\ relay # "idle"
                 /\ output = Replay(responses, Len(originalMessages))

C10_Witness ==
    /\ closed
    /\ relay = "pending"
    /\ Len(relayMessages) > 1
    /\ stored = <<>>

\* the response being consumed, and how many of its fragments were read
CurrentResponse == responses[Len(responses)]
FragmentsRead == Len(CurrentResponse) - Len(stream)

\* the events appended to the output by the step
NewEvents == SubSeq(output', Len(output) + 1, Len(output'))

\* the step forwards exactly the fragment that arrived next
ForwardsNextFragment ==
    /\ pc = "consume"
    /\ stream # <<>>
    /\ stream' = Tail(stream)
    /\ Len(output') = Len(output) + 1
    /\ SubSeq(output', 1, Len(output)) = output
    /\ LET e == output'[Len(output')]
           c == CurrentResponse[FragmentsRead + 1]
       IN  /\ e.id = currentMessageUUID
           /\ e.role = c.role
           /\ e.content = c.content
           /\ e.tool_calls = c.tool_calls
    /\ currentMessages' = currentMessages

\* the step forwards ToolMessages, after the end of the round's stream
ForwardsToolMessages ==
    /\ pc = "consume"
    /\ stream = <<>>
    /\ SubSeq(output', 1, Len(output)) = output
    /\ \A i \in 1..Len(NewEvents) : NewEvents[i].role = "tool"
    /\ Len(currentMessages') = Len(currentMessages) + 1 + Len(NewEvents)
    /\ SubSeq(currentMessages', Len(currentMessages) + 2, Len(currentMessages'))
          = NewEvents
    /\ requests' = requests

C11_Step ==
    /\ output' # output => ForwardsNextFragment \/ ForwardsToolMessages
    /\ currentMessages' # currentMessages =>
          /\ pc = "consume"
          /\ stream = <<>>
          /\ FragmentsRead = Len(CurrentResponse)
          /\ requests' = requests
    /\ requests' # requests =>
          /\ stream = <<>>
          /\ output' = output
          /\ \A i \in 1..Len(output) :
                output[i].role = "tool" =>
                   \E j \in 1..Len(currentMessages) : currentMessages[j] = output[i]
          /\ requests'[Len(requests')].messages = currentMessages

\* C11: within a round the fragments are forwarded one event each in
\* arrival order; the round's ToolMessages are forwarded, and its messages
\* appended to the history, only once the round's stream is exhausted and
\* before the next completion request.
C11_RoundOrder == [][C11_Step]_vars

C11_Witness ==
    /\ pc = "consume"
    /\ Len(responses) = 2
    /\ Len(CallIdsOf(responses[1])) = 2
    /\ stream = <<>>
    /\ Len(output) = Len(responses[1]) + 2 + Len(responses[2])
    /\ Len(responses[2]) = 2

\* C12: 0 <= steps <= max_steps always; the counter only ever changes by +1,
\* and only at the end of a round whose response finished with tool_calls; a
\* round with any other finish indicator leaves it unchanged.
C12_StepCounter ==
    /\ [](0 <= steps /\ steps <= maxToolCallSteps)
    /\ [][/\ steps' # steps =>
                /\ steps' = steps + 1
                /\ pc = "consume"
                /\ stream = <<>>
                /\ FinishOf(CurrentResponse) = "tool_calls"
          /\ (pc = "consume" /\ pc' # "consume"
                /\ FinishOf(CurrentResponse) # "tool_calls") => steps' = steps
         ]_vars

C12_Witness ==
    /\ steps = maxToolCallSteps
    /\ steps = MAX_TOOLCALL_STEPS
    /\ pc = "done"

\* C13: when the loop is done (max_steps >= 1) the history ends with an
\* assistant message whose finish indicator is not tool_calls, never with a
\* ToolMessage or an unanswered tool-call request.
C13_AsClaimed ==
    (LoopDone /\ maxToolCallSteps >= 1) =>
        /\ currentMessages[Len(currentMessages)].role = "assistant"
        /\ Len(responses) >= 1
        /\ FinishOf(CurrentResponse) # "tool_calls"

StreamFailures == {"completion request failed", "read failed"}

\* C14: a run on a non-empty history whose completion streams are finite and
\* do not fail reaches DONE and closes its output, so it never ends short of
\* DONE, and it issues at most max_steps + 1 completion requests.
C14_AsClaimed ==
    /\ Len(requests) <= maxToolCallSteps + 1
    /\ (/\ Len(originalMessages) > 0
        /\ pc # "constructed"
        /\ startError \notin StreamFailures)
          => pc \in {"loop", "consume", "finalize", "done"}

\* the assistant messages this run produced, one per finished round
AssistantProduced == SelectSeq(Produced, IsNotToolMessage)

\* the positions of the output holding a fragment stamped with identifier u
FragmentsStamped(u) ==
    {i \in 1..Len(output) : output[i].role # "tool" /\ output[i].id = u}

\* C15: a round has one message identifier, generated before its first
\* fragment is read; every fragment forwarded in the round carries it; the
\* round's finalized message carries it and the loop's thread_id; and the
\* identifiers of different rounds differ.
C15_MessageIdentity ==
    LET ap == AssistantProduced
    IN  /\ \A j \in 1..Len(ap) :
              /\ ap[j].thread_id = threadID
              /\ Cardinality(FragmentsStamped(ap[j].id)) = Len(responses[j])
        /\ \A j, k \in 1..Len(ap) : j # k => ap[j].id # ap[k].id
        /\ \A i \in 1..Len(output) :
              output[i].role # "tool" =>
                 \/ \E j \in 1..Len(ap) : ap[j].id = output[i].id
                 \/ pc \in {"consume", "error"}
                       /\ output[i].id = currentMessageUUID
        /\ pc = "consume" =>
              /\ \A j \in 1..Len(currentMessages) :
                    currentMessages[j].id # currentMessageUUID
              /\ Cardinality(FragmentsStamped(currentMessageUUID)) = FragmentsRead

C15_Witness ==
    /\ pc = "done"
    /\ Len(responses) = 3
    /\ Len(AssistantProduced) = 3
    /\ Len(output) > 5

IsPrefix(a, b) == Len(a) <= Len(b) /\ SubSeq(b, 1, Len(a)) = a

\* C16: the working history only grows at its end, the caller-supplied
\* messages stay its initial part, and each completion request carries the
\* history as it is when the request is issued.
C16_AppendOnly ==
    /\ [] IsPrefix(originalMessages, currentMessages)
    /\ [][/\ IsPrefix(currentMessages, currentMessages')
          /\ requests' # requests =>
                /\ requests' = Append(requests, requests'[Len(requests')])
                /\ requests'[Len(requests')].messages = currentMessages
         ]_vars

C16_Witness ==
    /\ pc = "done"
    /\ Len(requests) = 3
    /\ Len(requests[3].messages) > Len(requests[2].messages)
    /\ Len(currentMessages) > Len(requests[3].messages)

\* C17: the array the caller supplied is the same after the run as before.
C17_AsClaimed ==
    LoopDone => callerMessages = originalMessages

\* C19: a run with persist = false never appends to the Message Store.
C19_AsClaimed ==
    ~save => attempts = <<>> /\ stored = <<>>

\* C20: once obtaining or reading a completion stream has failed, the run
\* is over: no further request, the output is not closed, nothing is handed
\* to the relay, and nothing of the earlier rounds is stored.
C20_FailurePropagates ==
    startError # "none" =>
        /\ pc = "error"
        /\ ~closed
        /\ relay = "idle"
        /\ relayMessages = <<>>
        /\ attempts = <<>>
        /\ stored = <<>>
        /\ ~ENABLED Next

C20_Witness ==
    /\ startError = "read failed"
    /\ Len(requests) = 2
    /\ \E i \in 1..Len(output) : output[i].role = "tool"
    /\ Len(Produced) >= 2
    /\ stored = <<>>

RECURSIVE PiecesOf(_)
\* the tool-call pieces of the fragments fs, in arrival order
PiecesOf(fs) ==
    IF fs = <<>> THEN <<>>
    ELSE (IF Head(fs).has_tool_calls THEN Head(fs).tool_calls ELSE <<>>)
            \o PiecesOf(Tail(fs))

RECURSIVE ArgumentsFor(_, _)
\* the partial arguments of the pieces with index x, concatenated
ArgumentsFor(ps, x) ==
    IF ps = <<>> THEN ""
    ELSE (IF Head(ps).index = x /\ Head(ps).arguments # Absent
            THEN Head(ps).arguments ELSE "")
            \o ArgumentsFor(Tail(ps), x)

RECURSIVE FirstIdFor(_, _)
\* the first non-empty id among the pieces with index x, if any
FirstIdFor(ps, x) ==
    IF ps = <<>> THEN Absent
    ELSE IF Head(ps).index = x /\ Head(ps).id \notin {Absent, ""}
           THEN Head(ps).id ELSE FirstIdFor(Tail(ps), x)

RECURSIVE FirstNameFor(_, _)
\* the first non-empty function name among the pieces with index x, if any
FirstNameFor(ps, x) ==
    IF ps = <<>> THEN Absent
    ELSE IF Head(ps).index = x /\ Head(ps).name \notin {Absent, ""}
           THEN Head(ps).name ELSE FirstNameFor(Tail(ps), x)

RECURSIVE FirstSeen(_, _)
\* the indices of the pieces ps in the order they are first observed
FirstSeen(ps, seen) ==
    IF ps = <<>> THEN <<>>
    ELSE IF Head(ps).index \in seen THEN FirstSeen(Tail(ps), seen)
         ELSE <<Head(ps).index>>
                 \o FirstSeen(Tail(ps), seen \cup {Head(ps).index})

\* C18: after the fragments read so far, the merged tool call for index i
\* has the arrival-order concatenation of the partial arguments for i, the
\* first non-empty id and function name observed for i, and the merged tool
\* calls are in the order their indices were first observed.
C18_MergedToolCalls ==
    (pc = "consume" /\ Len(responses) >= 1) =>
        LET ps == PiecesOf(SubSeq(CurrentResponse, 1, FragmentsRead))
            order == FirstSeen(ps, {})
            tc == newChunkObject.tool_calls
        IN  /\ Len(tc) = Len(order)
            /\ \A j \in 1..Len(order) :
                  /\ tc[j].index = order[j]
                  /\ (IF tc[j].arguments = Absent THEN "" ELSE tc[j].arguments)
                        = ArgumentsFor(ps, order[j])
                  /\ FirstIdFor(ps, order[j]) # Absent =>
                        tc[j].id = FirstIdFor(ps, order[j])
                  /\ FirstNameFor(ps, order[j]) # Absent =>
                        tc[j].name = FirstNameFor(ps, order[j])

C18_Witness ==
    /\ pc = "consume"
    /\ stream = <<>>
    /\ Len(CurrentResponse) = 3
    /\ Len(newChunkObject.tool_calls) = 2
    /\ newChunkObject.tool_calls[1].index = 1
    /\ newChunkObject.tool_calls[1].arguments = "xy"
    /\ newChunkObject.tool_calls[1].id = "call_b"
    /\ CurrentResponse[3].tool_calls[1].id = "call_a"
    /\ CurrentResponse[3].tool_calls[1].index = 1

====
